---- MODULE Spec2Model ----
(***************************************************************************)
(* Model of the exchange-rate extraction layer of projeto_api_etl_compass:  *)
(*   src/src/etl/exchangerates.py  (keyed provider + free fallback)         *)
(*   src/src/etl/extractor.py      (batched fetch, quotes/rates shapes)     *)
(*   src/src/etl/extractors.py     (batched fetch with a retry loop)        *)
(* One behaviour is one call of fetch_timeseries of one of the three       *)
(* modules; every HTTP GET is one step, answered by the environment.       *)
(* Strings are sequences of one-character strings, so that strip(),        *)
(* upper(), lower(), slicing and substring tests are computed.             *)
(***************************************************************************)
EXTENDS Integers, Sequences, FiniteSets, TLC

VARIABLES
    module,     \* which fetch_timeseries is called
    env,        \* os.environ: EXCHANGE_PROVIDER, EXCHANGERATE_API_KEY
    args,       \* the arguments of the call
    pc,         \* "idle" (main has not called it), "call", "http", "returned", "raised"
    stage,      \* exchangerates: which provider call is running
    attempt,    \* attempts made so far by the running retry loop
    calls,      \* provider calls (exchangerates) or batch requests made so far
    ngets,      \* HTTP GETs issued so far
    batches,    \* extractor(s): batches still to request
    frames,     \* extractor(s): the frames appended so far
    sleeps,     \* extractors: exponents k of the time.sleep(backoff_s ** k) made
                \* by the running retry loop
    retried,    \* the ways in which the attempts repeated by the running retry loop
                \* had failed
    authSeen,   \* the keyed provider has answered 401 or 403
    result,     \* None or Some(table) once returned
    error,      \* None or Some(exception) once raised
    step,       \* main: 0 before run_pipeline starts, then the index in Stages of
                \* the call that run_pipeline is at
    log,        \* main: the messages of the logger "etl.main" so far
    written,    \* main: the file stems written so far, in order
    disk,       \* main: the files of this run that are on disk, each with its directory
    caught,     \* main: None or Some(exception) once main's handler has caught it
    exitStatus  \* main: None while the process runs, then Some(exit status)

vars == <<module, env, args, pc, stage, attempt, calls, ngets, batches,
          frames, sleeps, retried, authSeen, result, error,
          step, log, written, disk, caught, exitStatus>>

\* the part of the state that only main.py changes
pipe == <<step, log, written, disk, caught, exitStatus>>

----------------------------------------------------------------------------
(* Python values *)

None == <<>>
Some(x) == <<x>>
IsNone(o) == o = <<>>
Get(o) == o[1]

\* A list element that is not a str (isinstance(s, str) is False, and falsy).
NotAStr == <<"<None>">>

Min(a, b) == IF a <= b THEN a ELSE b
Max(a, b) == IF a >= b THEN a ELSE b

----------------------------------------------------------------------------
(* str: characters in ASCII order, and the str methods the code uses *)

Ascii == <<" ", "'", ",", "0", "1", "2", "3", "4", "5", "6", "7", "8", "9", ":",
           "A", "B", "C", "D", "E", "F", "G", "H", "I", "J", "K", "L", "M",
           "N", "O", "P", "Q", "R", "S", "T", "U", "V", "W", "X", "Y", "Z",
           "_",
           "a", "b", "c", "d", "e", "f", "g", "h", "i", "j", "k", "l", "m",
           "n", "o", "p", "q", "r", "s", "t", "u", "v", "w", "x", "y", "z">>

Chars == {Ascii[i] : i \in 1..Len(Ascii)}

\* the position of each character in Ascii
OrdOf == [c \in Chars |-> CHOOSE i \in 1..Len(Ascii) : Ascii[i] = c]

Ord(c) == OrdOf[c]

OrdA == OrdOf["A"]
OrdLowerA == OrdOf["a"]

IsUpperChar(c) == Ord(c) >= OrdA /\ Ord(c) < OrdA + 26
IsLowerChar(c) == Ord(c) >= OrdLowerA /\ Ord(c) < OrdLowerA + 26

UpperOf == [c \in Chars |-> IF IsLowerChar(c) THEN Ascii[Ord(c) - OrdLowerA + OrdA] ELSE c]
LowerOf == [c \in Chars |-> IF IsUpperChar(c) THEN Ascii[Ord(c) - OrdA + OrdLowerA] ELSE c]

UpperChar(c) == UpperOf[c]
LowerChar(c) == LowerOf[c]

\* str.upper(), str.lower()
Upper(s) == [i \in 1..Len(s) |-> UpperChar(s[i])]
Lower(s) == [i \in 1..Len(s) |-> LowerChar(s[i])]

RECURSIVE LStrip(_)
LStrip(s) == IF s # <<>> /\ Head(s) = " " THEN LStrip(Tail(s)) ELSE s

RECURSIVE RStrip(_)
RStrip(s) == IF s # <<>> /\ s[Len(s)] = " " THEN RStrip(SubSeq(s, 1, Len(s) - 1)) ELSE s

\* str.strip()
Strip(s) == RStrip(LStrip(s))

\* t in s
Contains(s, t) ==
    \E i \in 0..(Len(s) - Len(t)) : SubSeq(s, i + 1, i + Len(t)) = t

\* s.startswith(t)
StartsWith(s, t) == Len(s) >= Len(t) /\ SubSeq(s, 1, Len(t)) = t

\* s < t, the order sorted() and sort_values() use on str
RECURSIVE StrLess(_, _)
StrLess(s, t) ==
    IF t = <<>> THEN FALSE
    ELSE IF s = <<>> THEN TRUE
    ELSE IF Head(s) = Head(t) THEN StrLess(Tail(s), Tail(t))
    ELSE Ord(Head(s)) < Ord(Head(t))

\* sorted(set(xs)) for a list of str
RECURSIVE SortedSet(_)
SortedSet(S) ==
    IF S = {} THEN <<>>
    ELSE LET m == CHOOSE x \in S : \A y \in S \ {x} : StrLess(x, y)
         IN  <<m>> \o SortedSet(S \ {m})

SeqToSet(xs) == {xs[i] : i \in 1..Len(xs)}

----------------------------------------------------------------------------
(* Currency codes, dates and JSON bodies *)

USD == <<"U", "S", "D">>
EUR == <<"E", "U", "R">>
BRL == <<"B", "R", "L">>
GBP == <<"G", "B", "P">>
JPY == <<"J", "P", "Y">>
CHF == <<"C", "H", "F">>
CAD == <<"C", "A", "D">>

\* A JSON rate value: a number (in tenths), null, a numeric string or another string.
Num(n) == [t |-> "num", v |-> n]
Null == [t |-> "null", v |-> 0]
NumStr(n) == [t |-> "numstr", v |-> n]
BadStr == [t |-> "str", v |-> 0]
NaN == [t |-> "nan", v |-> 0]

\* One entry of a date-keyed mapping: date -> (None | mapping code -> value).
Entry(d, m) == [date |-> d, map |-> m]
Pair(c, v) == [code |-> c, val |-> v]

\* str(data): pad characters, then text, then tail characters.
Repr(p, t, n) == [pad |-> p, text |-> t, tail |-> n]

\* A decoded JSON body. isdict is FALSE for a JSON array.
EmptyDict ==
    [isdict |-> TRUE, success |-> None, source |-> None, base |-> None,
     rates |-> None, quotes |-> None, repr |-> Repr(0, <<>>, 2)]

\* An exception: its class, the status code (HTTPStatusError), the text of its
\* message that comes from the response, and how many characters of the body
\* the message carries.
Exc(t, c, m, n) == [type |-> t, code |-> c, msg |-> m, len |-> n]

\* A table (DataFrame): column names and rows.
Table(cols, rows) == [columns |-> cols, rows |-> rows]

----------------------------------------------------------------------------
(* exchangerates.py *)

\* as StopAfterAttempt, one attempt more
StopAfterSixAttempts == 5 + 1

\* stop_after_attempt(5)
StopAfterAttempt == 5
\* str(data)[:300]
SampleLen == 300

KeyedProviders ==
    { <<"a", "p", "i", "l", "a", "y", "e", "r">>,
      <<"e", "x", "c", "h", "a", "n", "g", "e", "r", "a", "t", "e", "s", "a", "p", "i">>,
      <<"e", "x", "c", "h", "a", "n", "g", "e", "r", "a", "t", "e", "s", "_", "d", "a", "t", "a">> }

PlaceholderKeys ==
    { <<"s", "u", "a", "_", "c", "h", "a", "v", "e">>,
      <<"y", "o", "u", "r", "_", "a", "p", "i", "_", "k", "e", "y", "_", "h", "e", "r", "e">> }

\* _settings(): provider and api_key as fetch_timeseries sees them
SettingsProvider(e) == Lower(Strip(e.EXCHANGE_PROVIDER))
SettingsApiKey(e) == Strip(e.EXCHANGERATE_API_KEY)

\* as KeyUnusable, without the lower()
KeyUnusableCaseSensitive(k) == k = <<>> \/ k \in PlaceholderKeys

\* not api_key or api_key.lower() in {"sua_chave", "your_api_key_here"}
KeyUnusable(k) == k = <<>> \/ Lower(k) \in PlaceholderKeys

\* sym = [s.strip().upper() for s in symbols if s and str(s).strip()]
ExSanitize(symbols) ==
    LET kept == SelectSeq(symbols, LAMBDA s : s # NotAStr /\ s # <<>> /\ Strip(s) # <<>>)
    IN  [i \in 1..Len(kept) |-> Upper(Strip(kept[i]))]

\* str(data)[:300]: the text of the sample and its length
Sample(r) ==
    [text |-> SubSeq(r.text, 1, Max(0, Min(Len(r.text), SampleLen - r.pad))),
     len |-> Min(SampleLen, r.pad + Len(r.text) + r.tail)]

\* pd.to_numeric(..., errors="coerce")
ToNumeric(v) == IF v.t \in {"num", "numstr"} THEN Num(v.v) ELSE NaN

\* for d_str, cur_map in rates.items(): for cur, val in (cur_map or {}).items()
RECURSIVE ExRows(_, _)
ExRows(entries, b) ==
    IF entries = <<>> THEN <<>>
    ELSE LET e == Head(entries)
             m == IF IsNone(e.map) THEN <<>> ELSE Get(e.map)
         IN  [i \in 1..Len(m) |->
                 [date |-> e.date, currency_code |-> m[i].code,
                  rate_to_base |-> ToNumeric(m[i].val), base |-> b]]
             \o ExRows(Tail(entries), b)

\* row a sorts strictly before row b by (currency_code, date)
ExRowLess(a, b) ==
    \/ StrLess(a.currency_code, b.currency_code)
    \/ a.currency_code = b.currency_code /\ a.date < b.date

RECURSIVE InsertRow(_, _)
InsertRow(r, sorted) ==
    IF sorted = <<>> THEN <<r>>
    ELSE IF ExRowLess(r, Head(sorted)) THEN <<r>> \o sorted
    ELSE <<Head(sorted)>> \o InsertRow(r, Tail(sorted))

\* df.sort_values(["currency_code", "date"]) (stable)
RECURSIVE SortRows(_)
SortRows(rows) ==
    IF rows = <<>> THEN <<>>
    ELSE InsertRow(rows[Len(rows)], SortRows(SubSeq(rows, 1, Len(rows) - 1)))

ExColumns == <<"date", "currency_code", "rate_to_base", "base">>

\* _normalize_timeseries_payload(data, base_fallback): a table or an exception
NormalizeTimeseriesPayload(data, base_fallback) ==
    IF ~data.isdict
    THEN [ok |-> FALSE, exc |-> Exc("AttributeError", 0, <<>>, 0)]
    ELSE IF IsNone(data.rates) \/ Get(data.rates) = <<>>
    THEN [ok |-> FALSE,
          exc |-> Exc("RuntimeError", 0, Sample(data.repr).text, Sample(data.repr).len)]
    ELSE LET b == IF IsNone(data.base) THEN base_fallback ELSE Get(data.base)
             rows == ExRows(Get(data.rates), b)
         IN  IF rows = <<>>
             THEN [ok |-> FALSE, exc |-> Exc("RuntimeError", 0, <<>>, 0)]
             ELSE [ok |-> TRUE, table |-> Table(ExColumns, SortRows(rows))]

\* "base" in msg and ("restrict" in msg or "105" in msg)
MentionsRestriction(msg) ==
    /\ Contains(msg, <<"b", "a", "s", "e">>)
    /\ \/ Contains(msg, <<"r", "e", "s", "t", "r", "i", "c", "t">>)
       \/ Contains(msg, <<"1", "0", "5">>)

\* msg = str(exc).lower(); then the test above
BaseRestricted(exc) == MentionsRestriction(Lower(exc.msg))

\* The except clauses of fetch_timeseries: what follows an exception raised by
\* the provider call of stage st, for the requested base.
Goto(st, prov, b) == [do |-> "call", stage |-> st, provider |-> prov, base |-> b]
Reraise == [do |-> "raise", stage |-> "", provider |-> "", base |-> <<>>]

\* as ExHandler, the fallback after a RuntimeError always forcing "EUR"
ExHandlerForcesBase(st, exc, base) ==
    IF st = "keyed" THEN
        IF exc.type = "RetryError" THEN Goto("free", "frankfurter", EUR)
        ELSE IF exc.type = "RuntimeError" THEN
            IF BaseRestricted(exc) THEN Goto("keyed_eur", "apilayer", EUR)
            ELSE Goto("free", "frankfurter", EUR)
        ELSE Reraise
    ELSE IF st = "keyed_eur" THEN Goto("free", "frankfurter", EUR)
    ELSE Reraise

\* as ExHandler, the keyed provider retried with "EUR" after any RuntimeError
ExHandlerRetriesKeyed(st, exc, base) ==
    IF st = "keyed" THEN
        IF exc.type = "RetryError" THEN Goto("free", "frankfurter", EUR)
        ELSE IF exc.type = "RuntimeError" THEN Goto("keyed_eur", "apilayer", EUR)
        ELSE Reraise
    ELSE IF st = "keyed_eur" THEN Goto("free", "frankfurter", EUR)
    ELSE Reraise

ExHandler(st, exc, base) ==
    IF st = "keyed" THEN
        IF exc.type = "RetryError" THEN Goto("free", "frankfurter", EUR)
        ELSE IF exc.type = "HTTPStatusError" THEN
            IF exc.code \in {401, 403} THEN Goto("free", "frankfurter", EUR)
            ELSE IF BaseRestricted(exc) THEN Goto("keyed_eur", "apilayer", EUR)
            ELSE Reraise
        ELSE IF exc.type = "RuntimeError" THEN
            IF BaseRestricted(exc) THEN Goto("keyed_eur", "apilayer", EUR)
            ELSE Goto("free", "frankfurter", base)
        ELSE Reraise
    ELSE IF st = "keyed_eur" THEN Goto("free", "frankfurter", EUR)
    ELSE Reraise

\* fetch_timeseries up to its first provider call
ExFirst(e, a) ==
    IF ExSanitize(a.symbols) = <<>> THEN [do |-> "raise", stage |-> "", provider |-> "", base |-> <<>>]
    ELSE IF SettingsProvider(e) \in KeyedProviders THEN
        IF KeyUnusable(SettingsApiKey(e)) THEN Goto("free", "frankfurter", EUR)
        ELSE Goto("keyed", "apilayer", a.base)
    ELSE Goto("free", "frankfurter", a.base)
----------------------------------------------------------------------------
(* extractors.py and extractor.py *)

\* (end_d - start_d).days > 365
MaxWindowDays == 365
\* retries: int = 3
DefaultRetries == 3
\* max_batch: int = 20
DefaultMaxBatch == 20

TransientStatus == {429, 500, 502, 503, 504}

BatchColumns == <<"date", "currency_code", "rate_to_usd">>

\* as BatchSanitize, each symbol trimmed before its length is tested
BatchSanitizeTrimmed(symbols) ==
    SortedSet({Upper(Strip(symbols[i])) :
                 i \in {j \in 1..Len(symbols) :
                          symbols[j] # NotAStr /\ Len(Strip(symbols[j])) = 3}})

\* symbols = sorted(set([s.upper() for s in symbols if isinstance(s, str) and len(s) == 3]))
BatchSanitize(symbols) ==
    SortedSet({Upper(symbols[i]) :
                 i \in {j \in 1..Len(symbols) : symbols[j] # NotAStr /\ Len(symbols[j]) = 3}})

\* as BatchEmptyInput, without the comparison of the dates
EmptyInputIgnoresDates(a) == BatchSanitize(a.symbols) = <<>>

\* if not symbols or start_d > end_d: return the empty table
BatchEmptyInput(a) == BatchSanitize(a.symbols) = <<>> \/ a.start_d > a.end_d

\* as WindowTooLarge, one day more allowed
WindowTooLargeLate(a) == a.end_d - a.start_d > MaxWindowDays + 1

\* as WindowTooLarge, with >= (the inclusive span compared)
WindowTooLargeInclusive(a) == a.end_d - a.start_d >= MaxWindowDays

\* if (end_d - start_d).days > 365: raise ValueError
WindowTooLarge(a) == a.end_d - a.start_d > MaxWindowDays

\* as Chunk, the last, shorter batch left out
RECURSIVE ChunkFullOnly(_, _)
ChunkFullOnly(lst, n) ==
    IF Len(lst) <= n THEN <<SubSeq(lst, 1, Min(n, Len(lst)))>>
    ELSE IF Len(lst) < 2 * n THEN <<SubSeq(lst, 1, n)>>
    ELSE <<SubSeq(lst, 1, n)>> \o ChunkFullOnly(SubSeq(lst, n + 1, Len(lst)), n)

\* _chunk(lst, n): lst[i:i + n] for i in range(0, len(lst), n)
RECURSIVE Chunk(_, _)
Chunk(lst, n) ==
    IF lst = <<>> THEN <<>>
    ELSE <<SubSeq(lst, 1, Min(n, Len(lst)))>> \o Chunk(SubSeq(lst, n + 1, Len(lst)), n)

\* as Kept, the test written "if val:"
KeptIfTruthy(v) == v.t # "null" /\ v # Num(0)

\* if val is not None
Kept(v) == v.t # "null"

\* as FloatFails, were the conversion guarded
FloatNeverFails(v) == FALSE

\* float(val) raises for a string that is no number
FloatFails(v) == v.t = "str"

\* the (code, val) pairs of a date-keyed mapping, in order, with their dates
RECURSIVE Items(_)
Items(entries) ==
    IF entries = <<>> THEN <<>>
    ELSE LET e == Head(entries)
             m == IF IsNone(e.map) THEN <<>> ELSE Get(e.map)
         IN  [i \in 1..Len(m) |-> [date |-> e.date, code |-> m[i].code, val |-> m[i].val]]
             \o Items(Tail(entries))

BatchRow(d, c, v) == [date |-> d, currency_code |-> c, rate_to_usd |-> Num(v.v)]

\* pd.DataFrame(rows): a list of no rows gives a frame of no columns
Frame(rows) == Table(IF rows = <<>> THEN <<>> ELSE BatchColumns, rows)

\* extractors.py, lines 132-160: the frame of one 200 response, or an exception
ExtractorsNormalize(data) ==
    IF ~data.isdict THEN [ok |-> FALSE, exc |-> Exc("AttributeError", 0, <<>>, 0)]
    ELSE IF data.success = Some(FALSE)
    THEN [ok |-> FALSE, exc |-> Exc("RuntimeError", 0, <<>>, 0)]
    ELSE IF IsNone(data.rates) \/ Get(data.rates) = <<>>
    THEN [ok |-> FALSE,
          exc |-> Exc("RuntimeError", 0, Sample(data.repr).text, Sample(data.repr).len)]
    ELSE LET kept == SelectSeq(Items(Get(data.rates)), LAMBDA it : Kept(it.val))
         IN  IF \E i \in 1..Len(kept) : FloatFails(kept[i].val)
             THEN [ok |-> FALSE, exc |-> Exc("ValueError", 0, <<>>, 0)]
             ELSE [ok |-> TRUE,
                   table |-> Frame([i \in 1..Len(kept) |->
                                BatchRow(kept[i].date, kept[i].code, kept[i].val)])]

\* extractor.py, lines 110-138
ExtractorNormalize(data) ==
    IF data.isdict /\ data.success = Some(FALSE)
    THEN [ok |-> FALSE, exc |-> Exc("RuntimeError", 0, <<>>, 0)]
    ELSE IF data.isdict /\ ~IsNone(data.quotes)
    THEN LET source == Upper(IF IsNone(data.source) \/ Get(data.source) = <<>>
                             THEN USD ELSE Get(data.source))
             kept == SelectSeq(Items(Get(data.quotes)),
                         LAMBDA it : StartsWith(Upper(it.code), source) /\ Kept(it.val))
         IN  IF \E i \in 1..Len(kept) : FloatFails(kept[i].val)
             THEN [ok |-> FALSE, exc |-> Exc("ValueError", 0, <<>>, 0)]
             ELSE [ok |-> TRUE,
                   table |-> Frame([i \in 1..Len(kept) |->
                                BatchRow(kept[i].date,
                                         Upper(SubSeq(kept[i].code, Len(source) + 1, Len(kept[i].code))),
                                         kept[i].val)])]
    ELSE IF data.isdict /\ ~IsNone(data.rates)
    THEN LET kept == SelectSeq(Items(Get(data.rates)), LAMBDA it : Kept(it.val))
         IN  IF \E i \in 1..Len(kept) : FloatFails(kept[i].val)
             THEN [ok |-> FALSE, exc |-> Exc("ValueError", 0, <<>>, 0)]
             ELSE [ok |-> TRUE,
                   table |-> Frame([i \in 1..Len(kept) |->
                                BatchRow(kept[i].date, Upper(kept[i].code), kept[i].val)])]
    ELSE [ok |-> FALSE,
          exc |-> Exc("RuntimeError", 0, Sample(data.repr).text, Sample(data.repr).len)]

BatchNormalize(m, data) ==
    IF m = "extractors" THEN ExtractorsNormalize(data) ELSE ExtractorNormalize(data)

\* the union of the frames' columns, in order of first appearance
RECURSIVE ConcatColumns(_)
ConcatColumns(fs) ==
    IF fs = <<>> THEN <<>>
    ELSE LET rest == ConcatColumns(SubSeq(fs, 1, Len(fs) - 1))
             last == fs[Len(fs)].columns
         IN  rest \o SelectSeq(last, LAMBDA c : c \notin SeqToSet(rest))

RECURSIVE ConcatRows(_)
ConcatRows(fs) ==
    IF fs = <<>> THEN <<>> ELSE Head(fs).rows \o ConcatRows(Tail(fs))

\* if not frames: return the empty table; return pd.concat(frames, ignore_index=True)
BatchResult(fs) ==
    IF fs = <<>> THEN Table(BatchColumns, <<>>)
    ELSE Table(ConcatColumns(fs), ConcatRows(fs))
----------------------------------------------------------------------------
(* The environment: what one HTTP GET can answer *)

Resp(k, c, b) == [kind |-> k, code |-> c, body |-> b]

\* {"rates": {"<day 1>": {sym: i - 1, ...}}, "base": b}: every requested symbol,
\* as asked, the first one with rate 0
EchoRates(syms, b) ==
    [EmptyDict EXCEPT
        !.rates = Some(<<Entry(1, Some([i \in 1..Len(syms) |-> Pair(syms[i], Num(i - 1))]))>>),
        !.base = Some(b)]

\* {"source": "USD", "quotes": {"<day 1>": {"USD"+sym: i, ...}}}
EchoQuotes(syms) ==
    [EmptyDict EXCEPT
        !.quotes = Some(<<Entry(1, Some([i \in 1..Len(syms) |-> Pair(USD \o syms[i], Num(i))]))>>),
        !.source = Some(USD)]

\* {"rates": {"2024-01-01": {"EUR": 0.9, "BRL": null}}, "base": "EUR"}
BodyExample ==
    [EmptyDict EXCEPT
        !.rates = Some(<<Entry(1, Some(<<Pair(EUR, Num(9)), Pair(BRL, Null)>>))>>),
        !.base = Some(EUR)]

\* lower-case keys, a zero rate, a numeric string, a string that is no number; no "base"
BodyLower ==
    [EmptyDict EXCEPT
        !.rates = Some(<<Entry(2, Some(<<Pair(<<"u", "s", "d">>, Num(0))>>)),
                         Entry(1, Some(<<Pair(<<"u", "s", "d">>, NumStr(5)),
                                         Pair(<<"E", "u", "r">>, BadStr)>>))>>)]

\* like EchoRates, the first symbol in lower case with a null rate, the second
\* one with rate 0
RatesWithNull(syms) ==
    [EmptyDict EXCEPT
        !.rates = Some(<<Entry(1, Some([i \in 1..Len(syms) |->
                            IF i = 1 THEN Pair(Lower(syms[i]), Null)
                            ELSE Pair(syms[i], Num(i - 2))]))>>)]

\* {"base": "USD", "rates": {}}
BodyEmptyRates ==
    [EmptyDict EXCEPT !.rates = Some(<<>>), !.base = Some(USD),
                      !.repr = Repr(2, <<"b", "a", "s", "e">>, 22)]

\* {"rates": {"2024-01-01": null}}
BodyNullMaps == [EmptyDict EXCEPT !.rates = Some(<<Entry(1, None)>>)]

\* an error body whose text says the base is restricted, pad characters into str(data)
BodyRestricted(pad) ==
    [EmptyDict EXCEPT !.success = Some(FALSE),
        !.repr = Repr(pad, <<"B", "a", "s", "e", " ", "r", "e", "s", "t", "r", "i", "c", "t", "e", "d">>, 2)]

\* an error body that carries the restriction code
Body105 ==
    [EmptyDict EXCEPT !.success = Some(FALSE),
        !.repr = Repr(12, <<"b", "a", "s", "e", " ", "1", "0", "5">>, 2)]

\* an error body about something else
BodyOtherError ==
    [EmptyDict EXCEPT !.success = Some(FALSE),
        !.repr = Repr(12, <<"i", "n", "v", "a", "l", "i", "d", " ", "d", "a", "t", "e">>, 400)]

\* a JSON array
BodyList == [EmptyDict EXCEPT !.isdict = FALSE]

\* {"rates": {"<day 1>": {sym: "n/a"}}}
BodyBadValue(syms) ==
    [EmptyDict EXCEPT !.rates = Some(<<Entry(1, Some(<<Pair(syms[1], BadStr)>>))>>)]

\* {"source": "usd", "quotes": {...}}: a pair of another source, a null, lower case
QuotesMixed(syms) ==
    [EmptyDict EXCEPT
        !.source = Some(<<"u", "s", "d">>),
        !.quotes = Some(<<Entry(1, Some(<<Pair(Lower(USD \o syms[1]), Num(7)),
                                          Pair(EUR \o syms[1], Num(8)),
                                          Pair(USD \o GBP, Null),
                                          Pair(USD, Num(1))>>))>>)]

\* {"quotes": {}}
BodyEmptyQuotes == [EmptyDict EXCEPT !.quotes = Some(<<>>)]

\* pad values of the restriction text: inside, across and beyond the sample
FarPad == 290

ErrorStatus == {400, 401, 403, 429, 500, 503}

\* responses that make _get_json / raise_for_status / resp.json() raise
FailResponses ==
    {Resp("timeout", 0, EmptyDict), Resp("badjson", 200, EmptyDict)}
    \cup {Resp("status", c, BodyOtherError) : c \in ErrorStatus}
    \cup {Resp("status", 400, BodyRestricted(0))}

\* 200 responses with a JSON body, for a request of syms with base b
ExBodies(syms, b) ==
    {EchoRates(syms, b), BodyExample, BodyLower, BodyEmptyRates, BodyNullMaps,
     BodyRestricted(0), BodyRestricted(FarPad), Body105, BodyOtherError, BodyList,
     BodyBadValue(syms)}

BatchBodies(m, syms) ==
    {EchoRates(syms, USD), RatesWithNull(syms), BodyOtherError, BodyEmptyRates, BodyList,
     BodyBadValue(syms)}
    \cup (IF m = "extractor" THEN {QuotesMixed(syms), BodyEmptyQuotes} ELSE {})

----------------------------------------------------------------------------
(* The calls: inputs *)

\* longest list of distinct well-formed symbols asked for
MaxSymbols == 5
\* largest max_batch tried besides the default
MaxBatchCap == 3

Catalog == <<<<"u", "s", "d">>, EUR, <<"b", "r", "l">>, JPY, GBP, CHF, CAD>>

\* lists with blanks, padding, duplicates, a non-str, a 4-letter code, an empty str
DirtyInputs ==
    { <<<<" ", " ">>>>,
      <<<<" ", "u", "s", "d", " ">>, EUR>>,
      <<BRL, <<"b", "r", "l">>, NotAStr, <<"E", "U", "R", "O">>, <<>>>> }

SymbolInputs(m) ==
    {SubSeq(Catalog, 1, n) :
        n \in 0..(IF m = "exchangerates" THEN 1 ELSE Min(MaxSymbols, Len(Catalog)))}
    \cup DirtyInputs

Environ(p, k) == [EXCHANGE_PROVIDER |-> p, EXCHANGERATE_API_KEY |-> k]

GoodKey == <<" ", "k", "3", "y">>

\* the environments tried: no provider, an unknown one, each keyed provider
\* name with a missing, blank or placeholder key, one keyed provider with a key
Environs ==
    { Environ(<<>>, <<>>),
      Environ(<<>>, GoodKey),
      Environ(<<"f", "r", "a", "n", "k", "f", "u", "r", "t", "e", "r">>, GoodKey),
      Environ(<<" ", "A", "P", "I", "L", "a", "y", "e", "r", " ">>, GoodKey),
      Environ(<<"a", "p", "i", "l", "a", "y", "e", "r">>, <<>>),
      Environ(<<"a", "p", "i", "l", "a", "y", "e", "r">>, <<" ">>),
      Environ(<<"e", "x", "c", "h", "a", "n", "g", "e", "r", "a", "t", "e", "s", "a", "p", "i">>,
              <<"S", "U", "A", "_", "C", "H", "A", "V", "E">>),
      Environ(<<"e", "x", "c", "h", "a", "n", "g", "e", "r", "a", "t", "e", "s", "_", "d", "a", "t", "a">>,
              <<"Y", "o", "u", "r", "_", "A", "p", "i", "_", "K", "e", "y", "_", "H", "e", "r", "e", " ">>) }

\* end_d - start_d, in days; exchangerates.py never compares it with the limit
Windows(m) ==
    {-1, MaxWindowDays - 1, MaxWindowDays + 1}
    \cup (IF m = "exchangerates" THEN {} ELSE {MaxWindowDays})

Modules == {"exchangerates", "extractors", "extractor"}

NewCall(prov, b, syms) ==
    [provider |-> prov, base |-> b, symbols |-> syms,
     status |-> "running", failure |-> None, body |-> None, rows |-> <<>>]

Init ==
    /\ module \in Modules
    /\ env \in IF module = "exchangerates" THEN Environs ELSE {Environ(<<>>, <<>>)}
    /\ args \in [symbols : SymbolInputs(module),
                  start_d : {0},
                  end_d : Windows(module),
                  base : IF module = "exchangerates" THEN {USD, EUR} ELSE {USD},
                  max_batch : IF module = "exchangerates" THEN {DefaultMaxBatch}
                              ELSE (1..MaxBatchCap) \cup {DefaultMaxBatch},
                  retries : IF module = "extractors" THEN {1, DefaultRetries}
                            ELSE {DefaultRetries}]
    /\ pc = "call"
    /\ stage = ""
    /\ attempt = 0
    /\ calls = <<>>
    /\ ngets = 0
    /\ batches = <<>>
    /\ frames = <<>>
    /\ sleeps = <<>>
    /\ retried = {}
    /\ authSeen = FALSE
    /\ result = None
    /\ error = None
    /\ step = 0
    /\ log = <<>>
    /\ written = <<>>
    /\ disk = {}
    /\ caught = None
    /\ exitStatus = None
----------------------------------------------------------------------------
(* Steps *)

Cur == calls[Len(calls)]

\* the provider's error text (whole body, not only the sample) says that the
\* base is restricted
RestrictionSignal(r) ==
    r.kind \in {"status", "json"} /\ MentionsRestriction(Lower(r.body.repr.text))

\* how one attempt ended: with a timeout or a status that the retry loop of
\* extractors.py repeats (429/5xx), with a decoded JSON body, or otherwise
AttemptClass(r) ==
    IF r.kind = "timeout" \/ (r.kind = "status" /\ r.code \in TransientStatus)
    THEN "transient"
    ELSE IF r.kind = "json" THEN "json"
    ELSE "other"

\* how a provider call failed: the exception raised out of it and the response
\* that caused it
Failure(r, exc) ==
    [type |-> exc.type, restricted |-> BaseRestricted(exc),
     kind |-> r.kind, code |-> r.code, signal |-> RestrictionSignal(r),
     carried |-> exc.code]

\* the running provider call returns the rows made from the body
EndedOk(body, rows) ==
    [calls EXCEPT ![Len(calls)].status = "ok", ![Len(calls)].body = Some(body),
                  ![Len(calls)].rows = rows]

\* the running provider call raises exc on response r
EndedFailed(r, exc) ==
    [calls EXCEPT ![Len(calls)].status = "failed",
                  ![Len(calls)].failure = Some(Failure(r, exc))]

\* as Raise, the failed batch skipped: the frames appended so far are returned
RaiseReturnsPartial(exc) ==
    /\ pc' = "returned"
    /\ result' = Some(BatchResult(frames))
    /\ error' = None

Return(t) ==
    /\ pc' = "returned"
    /\ result' = Some(t)
    /\ error' = None

Raise(exc) ==
    /\ pc' = "raised"
    /\ error' = Some(exc)
    /\ result' = None

\* exchangerates.fetch_timeseries, lines 77-91 and 126-128: up to the first provider call
ExCall ==
    /\ pc = "call"
    /\ module = "exchangerates"
    /\ LET f == ExFirst(env, args)
       IN  IF f.do = "raise"
           THEN /\ Raise(Exc("ValueError", 0, <<>>, 0))
                /\ UNCHANGED <<stage, calls>>
           ELSE /\ stage' = f.stage
                /\ calls' = <<NewCall(f.provider, f.base, ExSanitize(args.symbols))>>
                /\ pc' = "http"
                /\ UNCHANGED <<result, error>>
    /\ UNCHANGED <<module, env, args, attempt, ngets, batches, frames, sleeps, retried,
                   authSeen>>
    /\ UNCHANGED pipe

\* the provider call of the running stage raised exc on response r: the except clauses
ExFailed(r, exc) ==
    LET h == ExHandler(stage, exc, args.base)
    IN  IF h.do = "raise"
        THEN /\ Raise(exc)
             /\ calls' = EndedFailed(r, exc)
             /\ attempt' = attempt + 1
             /\ UNCHANGED <<stage, retried>>
        ELSE /\ stage' = h.stage
             /\ calls' = Append(EndedFailed(r, exc),
                                NewCall(h.provider, h.base, Cur.symbols))
             /\ attempt' = 0
             /\ retried' = {}
             /\ UNCHANGED <<pc, result, error>>

\* _get_json: one attempt that raises (any exception is retried by @retry)
ExGetFail ==
    /\ pc = "http"
    /\ module = "exchangerates"
    /\ \E r \in FailResponses :
          /\ authSeen' = (authSeen \/ (Cur.provider = "apilayer" /\ r.code \in {401, 403}))
          /\ IF attempt + 1 < StopAfterAttempt
             THEN /\ attempt' = attempt + 1
                  /\ retried' = retried \cup {AttemptClass(r)}
                  /\ UNCHANGED <<pc, stage, calls, result, error>>
             ELSE ExFailed(r, Exc("RetryError", r.code, <<>>, 0))
    /\ ngets' = ngets + 1
    /\ UNCHANGED <<module, env, args, batches, frames, sleeps>>
    /\ UNCHANGED pipe

\* _get_json: an attempt that returns JSON, then _normalize_timeseries_payload
ExGetOk ==
    /\ pc = "http"
    /\ module = "exchangerates"
    /\ \E body \in ExBodies(Cur.symbols, Cur.base) :
          LET n == NormalizeTimeseriesPayload(body, Cur.base)
              r == Resp("json", 200, body)
          IN  IF n.ok
              THEN /\ Return(n.table)
                   /\ calls' = EndedOk(body, n.table.rows)
                   /\ attempt' = attempt + 1
                   /\ UNCHANGED <<stage, retried>>
              ELSE ExFailed(r, n.exc)
    /\ ngets' = ngets + 1
    /\ UNCHANGED <<module, env, args, batches, frames, sleeps, authSeen>>
    /\ UNCHANGED pipe

\* params["base"]: base.upper() in extractors.py, not sent by extractor.py
ParamBase(m, a) == IF m = "extractors" THEN Upper(a.base) ELSE <<>>

\* extractor(s).fetch_timeseries up to the first request
BatchCall ==
    /\ pc = "call"
    /\ module \in {"extractors", "extractor"}
    /\ IF BatchEmptyInput(args)
       THEN /\ Return(Table(BatchColumns, <<>>))
            /\ UNCHANGED <<batches, calls>>
       ELSE IF WindowTooLarge(args)
       THEN /\ Raise(Exc("ValueError", 0, <<>>, 0))
            /\ UNCHANGED <<batches, calls>>
       ELSE LET bs == Chunk(BatchSanitize(args.symbols), args.max_batch)
            IN  /\ batches' = bs
                /\ calls' = <<NewCall("exchangerate.host", ParamBase(module, args), Head(bs))>>
                /\ pc' = "http"
                /\ UNCHANGED <<result, error>>
    /\ UNCHANGED <<module, env, args, stage, attempt, ngets, frames, sleeps, retried,
                   authSeen>>
    /\ UNCHANGED pipe

\* the exception a failed response becomes
HttpExc(r) ==
    IF r.kind = "timeout" THEN Exc("ReadTimeout", 0, <<>>, 0)
    ELSE IF r.kind = "badjson" THEN Exc("JSONDecodeError", 0, <<>>, 0)
    ELSE Exc("HTTPStatusError", r.code, <<>>, 0)

\* as Retried, with one attempt less
RetriedOnceLess(m, r, n, retries) ==
    /\ m = "extractors"
    /\ \/ r.kind = "timeout"
       \/ r.kind = "status" /\ r.code \in TransientStatus
    /\ n < retries

\* extractors.py lines 126-129 and 163-166: the attempt is repeated after a sleep
Retried(m, r, n, retries) ==
    /\ m = "extractors"
    /\ \/ r.kind = "timeout"
       \/ r.kind = "status" /\ r.code \in TransientStatus
    /\ n <= retries

\* as SleepExponent, counting from 0: the first sleep lasts backoff_s ** 0
SleepExponentFromZero(n) == n - 1

\* extractors.py: time.sleep(backoff_s ** attempt), after the failed attempt n
SleepExponent(n) == n

\* extractors.py: time.sleep(backoff_s ** attempt); continue
BatchGetRetry ==
    /\ pc = "http"
    /\ module \in {"extractors", "extractor"}
    /\ \E r \in FailResponses :
          /\ Retried(module, r, attempt + 1, args.retries)
          /\ attempt' = attempt + 1
          /\ sleeps' = Append(sleeps, SleepExponent(attempt + 1))
          /\ retried' = retried \cup {AttemptClass(r)}
    /\ ngets' = ngets + 1
    /\ UNCHANGED <<module, env, args, pc, stage, calls, batches, frames, authSeen,
                   result, error>>
    /\ UNCHANGED pipe

\* a request whose failure is raised out of fetch_timeseries
BatchGetFail ==
    /\ pc = "http"
    /\ module \in {"extractors", "extractor"}
    /\ \E r \in FailResponses :
          /\ ~Retried(module, r, attempt + 1, args.retries)
          /\ attempt' = attempt + 1
          /\ calls' = EndedFailed(r, HttpExc(r))
          /\ Raise(HttpExc(r))
    /\ ngets' = ngets + 1
    /\ UNCHANGED <<module, env, args, stage, batches, frames, sleeps, retried, authSeen>>
    /\ UNCHANGED pipe

\* a 200 response with a JSON body: normalised and appended, or raised
BatchGetOk ==
    /\ pc = "http"
    /\ module \in {"extractors", "extractor"}
    /\ \E body \in BatchBodies(module, Head(batches)) :
          LET n == BatchNormalize(module, body)
              r == Resp("json", 200, body)
          IN  IF ~n.ok
              THEN /\ Raise(n.exc)
                   /\ calls' = [EndedFailed(r, n.exc) EXCEPT ![Len(calls)].body = Some(body)]
                   /\ attempt' = attempt + 1
                   /\ UNCHANGED <<batches, frames, sleeps, retried>>
              ELSE /\ frames' = Append(frames, n.table)
                   /\ batches' = Tail(batches)
                   /\ attempt' = 0
                   /\ sleeps' = <<>>
                   /\ retried' = {}
                   /\ IF Tail(batches) = <<>>
                      THEN /\ Return(BatchResult(frames'))
                           /\ calls' = EndedOk(body, n.table.rows)
                      ELSE /\ calls' = Append(EndedOk(body, n.table.rows),
                                  NewCall("exchangerate.host", ParamBase(module, args),
                                          Head(Tail(batches))))
                           /\ UNCHANGED <<pc, result, error>>
    /\ ngets' = ngets + 1
    /\ UNCHANGED <<module, env, args, stage, authSeen>>
    /\ UNCHANGED pipe

Next ==
    \/ ExCall
    \/ ExGetFail
    \/ ExGetOk
    \/ BatchCall
    \/ BatchGetRetry
    \/ BatchGetFail
    \/ BatchGetOk

Spec == Init /\ [][Next]_vars

\* every GET ends (httpx timeout) and every wait of a retry is finite (tenacity
\* waits at most 8 s, time.sleep(backoff_s ** k)): a call that can take a step
\* takes it
FairSpec == Spec /\ WF_vars(Next)
----------------------------------------------------------------------------
(* main.py *)

\* p.add_argument("--days", type=int, default=30)
DefaultDays == 30

Iniciando == "Iniciando pipeline: Countries + FX + Gold"
Finalizado == "Pipeline finalizado com sucesso."
Falha == "Falha na execução do pipeline"

Stage(fn, stem) == [fn |-> fn, stem |-> stem]

\* run_pipeline: the calls it makes, in order, each with the file it writes
Stages ==
    << Stage("fetch_countries", ""),
       Stage("write_parquet", "countries_raw"),
       Stage("transform_countries", ""),
       Stage("_save_quality", "quality_countries"),
       Stage("write_parquet", "countries_clean"),
       Stage("fetch_timeseries", ""),
       Stage("write_parquet", "fx_raw"),
       Stage("transform_rates", ""),
       Stage("_save_quality", "quality_rates"),
       Stage("write_parquet", "fx_clean"),
       Stage("enrich_countries_with_rates", ""),
       Stage("_save_quality", "quality_enriched"),
       Stage("write_parquet", "countries_fx"),
       Stage("build_gold_views", ""),
       Stage("mkdir", ""),
       Stage("write_csv", "enriched_latest"),
       Stage("write_csv", "country_timeseries") >>

IsFetch(k) == k \in DOMAIN Stages /\ Stages[k].fn = "fetch_timeseries"

\* writer._ensure_dataframe: an empty DataFrame is refused
EnsureDataframeFails(t) == t.rows = <<>>

\* write_csv(df, path, overwrite): writes the file or raises what the file
\* system raises
WriteCsvErrors == {Exc("OSError", 0, <<>>, 0)}

\* what a call of run_pipeline other than fetch_timeseries can raise
StageErrors(s) ==
    CASE s.fn = "fetch_countries" ->
             {Exc("HTTPStatusError", 500, <<>>, 0), Exc("ConnectError", 0, <<>>, 0)}
      [] s.fn = "write_parquet" ->
             {Exc("ValueError", 0, <<>>, 0), Exc("OSError", 0, <<>>, 0)}
      [] s.fn \in {"transform_countries", "transform_rates",
                   "enrich_countries_with_rates", "build_gold_views"} ->
             {Exc("ValueError", 0, <<>>, 0)}
      [] s.fn \in {"_save_quality", "mkdir"} -> {Exc("OSError", 0, <<>>, 0)}
      [] s.fn = "write_csv" -> WriteCsvErrors
      [] OTHER -> {}

\* the default directories of parse_args
DefaultDirs ==
    [bronze_countries |-> <<"data", "bronze", "countries">>,
     silver_countries |-> <<"data", "silver", "countries">>,
     bronze_rates |-> <<"data", "bronze", "rates">>,
     silver_rates |-> <<"data", "silver", "rates">>,
     silver_enriched |-> <<"data", "silver", "enriched">>,
     gold_dir |-> <<"data", "gold">>]

\* the directories tried: the defaults; --silver-countries data/bronze/countries
\* (the directory of an earlier layer); --bronze-rates data/bronze (a directory
\* that contains the one of an earlier layer)
DirChoices ==
    { DefaultDirs,
      [DefaultDirs EXCEPT !.silver_countries = DefaultDirs.bronze_countries],
      [DefaultDirs EXCEPT !.bronze_rates = <<"data", "bronze">>] }

\* the directory that a call of run_pipeline writes into
StageDir(s) ==
    CASE s.stem = "countries_raw" -> args.dirs.bronze_countries
      [] s.stem = "countries_clean" -> args.dirs.silver_countries
      [] s.stem = "fx_raw" -> args.dirs.bronze_rates
      [] s.stem = "fx_clean" -> args.dirs.silver_rates
      [] s.stem = "countries_fx" -> args.dirs.silver_enriched
      [] s.fn = "write_csv" -> args.dirs.gold_dir
      [] s.fn = "_save_quality" -> <<"data", "_reports">>
      [] OTHER -> <<>>

File(dir, stem) == [dir |-> dir, stem |-> stem]

\* path p is directory q or lies inside it
Under(p, q) == Len(q) <= Len(p) /\ SubSeq(p, 1, Len(q)) = q

\* writer._remove_if_exists on a directory: shutil.rmtree
RemoveIfExists(d, dir) == {f \in d : ~Under(f.dir, dir)}

\* write_parquet with partition_cols: if overwrite, the output directory is
\* removed before the write
Cleared(d, s) == IF args.overwrite THEN RemoveIfExists(d, StageDir(s)) ELSE d

\* write_csv(df, path, overwrite): the file is written
WriteCsv(d, s) == d \cup {File(StageDir(s), s.stem)}

\* the files on disk after a call of run_pipeline has returned
AfterWrite(d, s) ==
    CASE s.fn = "write_parquet" -> Cleared(d, s) \cup {File(StageDir(s), s.stem)}
      [] s.fn = "write_csv" -> WriteCsv(d, s)
      [] s.fn = "_save_quality" -> d \cup {File(StageDir(s), s.stem)}
      [] OTHER -> d

\* as AfterFailedWrite, with a rollback: what the run had written is removed
AfterFailedWriteRollback(d, s, exc) == {}

\* the files on disk after a call of run_pipeline has raised: to_parquet
\* fails after the removal of the output directory, _ensure_dataframe before it
AfterFailedWrite(d, s, exc) ==
    IF s.fn = "write_parquet" /\ exc.type = "OSError" THEN Cleared(d, s) ELSE d

\* the table that the write after fetch_timeseries is given is the one that
\* fetch_timeseries returned: write_parquet cannot succeed on an empty one
CanSucceed(s) ==
    s.stem = "fx_raw" => ~EnsureDataframeFails(Get(result))

\* as Handle, sys.exit(1) left out: main returns and the process ends with status 0
HandleWithoutExit(exc) ==
    /\ caught' = Some(exc)
    /\ log' = Append(log, Falha)
    /\ exitStatus' = Some(0)

\* main's except Exception: logger.exception(...), sys.exit(1)
Handle(exc) ==
    /\ caught' = Some(exc)
    /\ log' = Append(log, Falha)
    /\ exitStatus' = Some(1)

\* main calls run_pipeline, which logs its first message
MainStart ==
    /\ step = 0
    /\ exitStatus = None
    /\ log' = Append(log, Iniciando)
    /\ step' = 1
    /\ UNCHANGED <<written, disk, caught, exitStatus>>
    /\ UNCHANGED <<module, env, args, pc, stage, attempt, calls, ngets, batches,
                   frames, sleeps, retried, authSeen, result, error>>

\* a call of run_pipeline other than fetch_timeseries returns
StageOk ==
    /\ step \in DOMAIN Stages
    /\ exitStatus = None
    /\ ~IsFetch(step)
    /\ CanSucceed(Stages[step])
    /\ written' = IF Stages[step].stem = "" THEN written
                  ELSE Append(written, Stages[step].stem)
    /\ disk' = AfterWrite(disk, Stages[step])
    /\ step' = step + 1
    /\ UNCHANGED <<log, caught, exitStatus>>
    /\ UNCHANGED <<module, env, args, pc, stage, attempt, calls, ngets, batches,
                   frames, sleeps, retried, authSeen, result, error>>

\* a call of run_pipeline other than fetch_timeseries raises: run_pipeline has
\* no handler, main's handler catches it
StageRaise ==
    /\ step \in DOMAIN Stages
    /\ exitStatus = None
    /\ ~IsFetch(step)
    /\ \E exc \in StageErrors(Stages[step]) :
          /\ Handle(exc)
          /\ disk' = AfterFailedWrite(disk, Stages[step], exc)
    /\ UNCHANGED <<step, written>>
    /\ UNCHANGED <<module, env, args, pc, stage, attempt, calls, ngets, batches,
                   frames, sleeps, retried, authSeen, result, error>>

\* run_pipeline calls exchangerates.fetch_timeseries
FetchCall ==
    /\ IsFetch(step)
    /\ exitStatus = None
    /\ pc = "idle"
    /\ pc' = "call"
    /\ UNCHANGED pipe
    /\ UNCHANGED <<module, env, args, stage, attempt, calls, ngets, batches,
                   frames, sleeps, retried, authSeen, result, error>>

\* fetch_timeseries has returned its table to run_pipeline
FetchReturned ==
    /\ IsFetch(step)
    /\ exitStatus = None
    /\ pc = "returned"
    /\ step' = step + 1
    /\ UNCHANGED <<log, written, disk, caught, exitStatus>>
    /\ UNCHANGED <<module, env, args, pc, stage, attempt, calls, ngets, batches,
                   frames, sleeps, retried, authSeen, result, error>>

\* fetch_timeseries has raised: main's handler catches it
FetchRaised ==
    /\ IsFetch(step)
    /\ exitStatus = None
    /\ pc = "raised"
    /\ Handle(Get(error))
    /\ UNCHANGED <<step, written, disk>>
    /\ UNCHANGED <<module, env, args, pc, stage, attempt, calls, ngets, batches,
                   frames, sleeps, retried, authSeen, result, error>>

\* the last statement of run_pipeline; main returns
RunPipelineDone ==
    /\ step = Len(Stages) + 1
    /\ exitStatus = None
    /\ log' = Append(log, Finalizado)
    /\ exitStatus' = Some(0)
    /\ UNCHANGED <<step, written, disk, caught>>
    /\ UNCHANGED <<module, env, args, pc, stage, attempt, calls, ngets, batches,
                   frames, sleeps, retried, authSeen, result, error>>

\* python main.py [--symbols ...]: the fetch is not running until run_pipeline
\* reaches it
PipelineInit ==
    /\ module = "exchangerates"
    /\ env \in Environs
    /\ args \in [symbols : {SubSeq(Catalog, 1, n) : n \in 0..1},
                  start_d : {0},
                  end_d : {DefaultDays},
                  base : {USD},
                  max_batch : {DefaultMaxBatch},
                  retries : {DefaultRetries},
                  dirs : DirChoices,
                  overwrite : BOOLEAN]
    /\ pc = "idle"
    /\ stage = ""
    /\ attempt = 0
    /\ calls = <<>>
    /\ ngets = 0
    /\ batches = <<>>
    /\ frames = <<>>
    /\ sleeps = <<>>
    /\ retried = {}
    /\ authSeen = FALSE
    /\ result = None
    /\ error = None
    /\ step = 0
    /\ log = <<>>
    /\ written = <<>>
    /\ disk = {}
    /\ caught = None
    /\ exitStatus = None

PipelineNext ==
    \/ MainStart
    \/ StageOk
    \/ StageRaise
    \/ FetchCall
    \/ ExCall
    \/ ExGetFail
    \/ ExGetOk
    \/ FetchReturned
    \/ FetchRaised
    \/ RunPipelineDone

PipelineSpec == PipelineInit /\ [][PipelineNext]_vars
----------------------------------------------------------------------------
(* Properties of exchangerates.fetch_timeseries *)

Terminated == pc \in {"returned", "raised"}

IsEx == module = "exchangerates"
IsBatch == module \in {"extractors", "extractor"}

Keyed(c) == c.provider = "apilayer"
Free(c) == c.provider = "frankfurter"

FreeCalls == {i \in 1..Len(calls) : Free(calls[i])}

\* this step sends a GET to the keyed provider
KeyedGet == IsEx /\ pc = "http" /\ Keyed(Cur) /\ ngets' = ngets + 1

\* the first provider call was to the keyed provider and has failed
PrimaryFailed == IsEx /\ calls # <<>> /\ Keyed(calls[1]) /\ calls[1].status = "failed"

\* C1: once the keyed provider has answered 401 or 403, a table is returned
\* only by the free provider, called exactly once, with base "EUR", and the
\* rows returned are the rows of that call (with the base that provider reported).
C1_AuthFallsBackToFree ==
    (IsEx /\ authSeen /\ pc = "returned") =>
        /\ Cardinality(FreeCalls) = 1
        /\ Free(Cur) /\ Cur.base = EUR
        /\ Get(result).rows = Cur.rows

\* C2: once the keyed provider has answered 401 or 403, no step sends
\* another GET to the keyed provider.
C2_NoKeyedGetAfterAuth == [][authSeen => ~KeyedGet]_vars

\* C3: when the first keyed call fails on a response whose error text signals
\* a base restriction, here delivered with an HTTP error status, the
\* next provider call is the keyed provider with base "EUR", and the free
\* provider is called only after that one failed, with base "EUR".
C3_RestrictionRetriesKeyed ==
    (PrimaryFailed /\ Get(calls[1].failure).signal /\ Get(calls[1].failure).kind = "status") =>
        /\ Len(calls) >= 2
        /\ Keyed(calls[2]) /\ calls[2].base = EUR
        /\ Len(calls) >= 3 =>
              calls[2].status = "failed" /\ Free(calls[3]) /\ calls[3].base = EUR

\* C4 (as stated): a first keyed call that fails without any 401/403 and
\* without a restriction signal is followed by a call of the free provider
\* with the requested base.
C4_OtherFailureKeepsBase ==
    (PrimaryFailed /\ ~authSeen /\ ~Get(calls[1].failure).signal) =>
        /\ Len(calls) >= 2
        /\ Free(calls[2]) /\ calls[2].base = args.base

\* C4 (amended): a first keyed call that fails
\*   - by exhausting the 5 attempts of _get_json is followed by the free
\*     provider with base "EUR";
\*   - with a RuntimeError of the normaliser whose message does not mention a
\*     base restriction is followed by the free provider with the requested base;
\*   - with any other exception of the normaliser (a body that is no JSON
\*     object) raises it with no fallback call.
C4_FallbackBaseByFailure ==
    PrimaryFailed =>
        LET f == Get(calls[1].failure)
        IN  /\ f.type = "RetryError" =>
                  Len(calls) >= 2 /\ Free(calls[2]) /\ calls[2].base = EUR
            /\ (f.type = "RuntimeError" /\ ~f.restricted) =>
                  Len(calls) >= 2 /\ Free(calls[2]) /\ calls[2].base = args.base
            /\ f.type \notin {"RetryError", "RuntimeError"} =>
                  Len(calls) = 1 /\ pc = "raised" /\ Get(error).type = f.type

C4_Witness ==
    /\ PrimaryFailed
    /\ Get(calls[1].failure).type = "RuntimeError"
    /\ ~Get(calls[1].failure).restricted
    /\ Len(calls) = 2 /\ Free(calls[2]) /\ calls[2].base = USD
    /\ pc = "returned"

\* the key is empty or a placeholder, compared case-insensitively
KeyMissing(k) == Lower(Strip(k)) \in {<<>>} \cup PlaceholderKeys

\* C5: with a keyed provider configured and a missing or placeholder key no
\* call goes to the keyed provider, the one provider call is the free provider
\* with base "EUR" and an error raised is the one of that call; with no
\* provider configured every provider call is to the free provider.
C5_MissingKeyGoesFree ==
    (IsEx /\ calls # <<>>) =>
        /\ (Lower(Strip(env.EXCHANGE_PROVIDER)) \in KeyedProviders
             /\ KeyMissing(env.EXCHANGERATE_API_KEY)) =>
              /\ \A i \in 1..Len(calls) : Free(calls[i]) /\ calls[i].base = EUR
              /\ Len(calls) = 1
              /\ pc = "raised" => calls[1].status = "failed"
                                   /\ Get(error).type = Get(calls[1].failure).type
        /\ Strip(env.EXCHANGE_PROVIDER) = <<>> =>
              \A i \in 1..Len(calls) : Free(calls[i])

C5_Witness ==
    /\ IsEx /\ pc = "returned"
    /\ env.EXCHANGERATE_API_KEY = <<"S", "U", "A", "_", "C", "H", "A", "V", "E">>
    /\ args.base = USD
    /\ Len(calls) = 1 /\ Free(calls[1]) /\ calls[1].base = EUR /\ ngets > 0

\* C6: the provider calls are keyed, keyed with base "EUR" (only after a
\* detected restriction), free, in that order; a call that succeeds is the last
\* one and its table is the one returned; the free provider is the last
\* provider called, and when it fails its exception is raised.
C6_FixedOrderFirstSuccess ==
    IsEx =>
        /\ Len(calls) <= 3
        /\ \A i \in 1..Len(calls) :
              /\ i < Len(calls) => Keyed(calls[i]) /\ calls[i].status = "failed"
              /\ Keyed(calls[i]) => i <= 2
              /\ (Keyed(calls[i]) /\ i = 2) =>
                    calls[2].base = EUR /\ Get(calls[1].failure).restricted
              /\ calls[i].status = "ok" =>
                    /\ i = Len(calls)
                    /\ pc = "returned"
                    /\ result = Some(Table(ExColumns, calls[i].rows))
              /\ (Free(calls[i]) /\ calls[i].status = "failed") =>
                    pc = "raised" /\ Get(error).type = Get(calls[i].failure).type
        /\ pc = "returned" => Cur.status = "ok"
        /\ (pc = "raised" /\ calls # <<>>) => Cur.status = "failed"

C6_Witness ==
    /\ IsEx /\ pc = "returned" /\ Len(calls) = 3
    /\ Keyed(calls[1]) /\ Keyed(calls[2]) /\ Free(calls[3])
----------------------------------------------------------------------------
(* Properties of the input checks and of the batches *)

Window == args.end_d - args.start_d

Called == pc # "call"

CanonicalColumns == IF IsEx THEN ExColumns ELSE BatchColumns

RaisedValueError == pc = "raised" /\ Get(error).type = "ValueError"

ReturnedEmpty ==
    /\ pc = "returned"
    /\ Get(result).rows = <<>>
    /\ Get(result).columns = CanonicalColumns

NoRequest == ngets = 0 /\ calls = <<>>

\* C7 (as stated): in every variant and for every input, a call with
\* end_date - start_date > 365 days raises and issues no HTTP request.
C7_WindowAlwaysRaises ==
    (Called /\ Window > 365) => RaisedValueError /\ NoRequest

\* C7 (amended): in extractors.py and extractor.py a call with
\* end_date - start_date > 365 days issues no HTTP request; it raises
\* ValueError when the sanitized symbol list is not empty and returns the empty
\* table when it is. exchangerates.py has no window check: there such a call
\* raises ValueError only for an empty symbol list and otherwise goes on to
\* its first provider call.
C7_WindowRaisesInBatchVariants ==
    (Called /\ Window > 365) =>
        /\ (IsBatch /\ BatchSanitize(args.symbols) # <<>>) => RaisedValueError /\ NoRequest
        /\ (IsBatch /\ BatchSanitize(args.symbols) = <<>>) => ReturnedEmpty /\ NoRequest
        /\ IsEx => IF ExSanitize(args.symbols) = <<>>
                   THEN RaisedValueError /\ NoRequest
                   ELSE calls # <<>>

C7_Witness ==
    /\ module = "extractors" /\ Window = 366 /\ args.symbols # <<>>
    /\ RaisedValueError /\ NoRequest

\* C8 (as stated): a request is issued only when the inclusive day span
\* end_date - start_date + 1 is at most 365.
C8_InclusiveSpanAtMost365 ==
    (IsBatch /\ calls # <<>>) => Window + 1 <= 365

\* C8 (amended): a request is issued only when end_date - start_date is at
\* most 365 days (an inclusive span of at most 366 days): a window of inclusive
\* span 366 is accepted, and one of inclusive span 367 is rejected before any
\* request is issued.
C8_DifferenceAtMost365 ==
    IsBatch =>
        /\ calls # <<>> => Window <= 365
        /\ (Called /\ BatchSanitize(args.symbols) # <<>>) =>
              /\ Window + 1 = 366 => calls # <<>>
              /\ Window + 1 >= 367 => RaisedValueError /\ NoRequest

C8_Witness ==
    /\ module = "extractor" /\ Window + 1 = 366
    /\ pc = "returned" /\ ngets > 0

\* C9 (as stated): in every variant a call with an empty symbol list, or with
\* start_date > end_date, returns the empty table with the canonical columns
\* and issues no HTTP request.
C9_EmptyInputReturnsEmpty ==
    (Called /\ (args.symbols = <<>> \/ args.start_d > args.end_d)) =>
        ReturnedEmpty /\ NoRequest

\* C9 (amended): in extractors.py and extractor.py a call with an empty symbol
\* list, or with start_date > end_date, returns the empty table with the
\* columns date, currency_code, rate_to_usd and issues no HTTP request.
\* exchangerates.py raises ValueError for an empty symbol list, with no HTTP
\* request, and does not compare the dates: with symbols and
\* start_date > end_date it goes on to its first provider call.
C9_EmptyInputByVariant ==
    (Called /\ (args.symbols = <<>> \/ args.start_d > args.end_d)) =>
        /\ IsBatch => ReturnedEmpty /\ NoRequest
        /\ (IsEx /\ args.symbols = <<>>) => RaisedValueError /\ NoRequest
        /\ (IsEx /\ ExSanitize(args.symbols) # <<>>) => calls # <<>>

C9_Witness ==
    /\ module = "extractor" /\ args.start_d > args.end_d
    /\ BatchSanitize(args.symbols) # <<>>
    /\ ReturnedEmpty /\ NoRequest

CeilDiv(n, c) == (n + c - 1) \div c

RECURSIVE CallRows(_)
CallRows(cs) == IF cs = <<>> THEN <<>> ELSE Head(cs).rows \o CallRows(Tail(cs))

BatchSizes(bs) == [i \in 1..Len(bs) |-> Len(bs[i])]

\* C10: a call of extractor(s).fetch_timeseries that returns after requests
\* none of which failed has issued exactly ceil(n/c) requests for n sanitized
\* symbols and cap c, each with 1..c symbols, pairwise disjoint and together
\* the sanitized set, and returns the rows of every batch, in batch order;
\* 45 symbols with cap 20 are split 20/20/5.
C10_BatchesPartitionSymbols ==
    /\ BatchSizes(Chunk([i \in 1..45 |-> i], DefaultMaxBatch)) = <<20, 20, 5>>
    /\ (IsBatch /\ pc = "returned" /\ calls # <<>> /\ ngets = Len(calls)) =>
          LET san == BatchSanitize(args.symbols)
              c == args.max_batch
          IN  /\ ngets = CeilDiv(Len(san), c)
              /\ \A i \in 1..Len(calls) :
                    Len(calls[i].symbols) >= 1 /\ Len(calls[i].symbols) <= c
              /\ \A i, j \in 1..Len(calls) :
                    i # j => SeqToSet(calls[i].symbols) \cap SeqToSet(calls[j].symbols) = {}
              /\ UNION {SeqToSet(calls[i].symbols) : i \in 1..Len(calls)} = SeqToSet(san)
              /\ Get(result).rows = CallRows(calls)

C10_Witness ==
    /\ IsBatch /\ pc = "returned" /\ ngets = 3
    /\ args.max_batch = 2
    /\ BatchSizes([i \in 1..Len(calls) |-> calls[i].symbols]) = <<2, 2, 1>>
    /\ Len(Get(result).rows) >= 5
----------------------------------------------------------------------------
(* Properties of the batches' failures and of the retries *)

AllBatches == Chunk(BatchSanitize(args.symbols), args.max_batch)

FailedCalls == {i \in 1..Len(calls) : calls[i].status = "failed"}

\* C11: in extractor.py and extractors.py a batch whose request fails (HTTP
\* error, success:false body, body of no known shape, after the retries of
\* extractors.py) is the last batch requested: its exception is raised out of
\* the call, the later batches are never requested, and no table is returned.
C11_BatchFailureAborts ==
    IsBatch =>
        /\ \A i \in FailedCalls :
              /\ i = Len(calls)
              /\ pc = "raised"
              /\ result = None
              /\ Get(error).type = Get(calls[i].failure).type
              /\ Len(batches) = Len(AllBatches) - i + 1
        /\ pc = "returned" => FailedCalls = {}

C11_Witness ==
    /\ IsBatch /\ pc = "raised"
    /\ Len(calls) = 2 /\ calls[1].status = "ok" /\ calls[1].rows # <<>>
    /\ calls[2].status = "failed"
    /\ Len(AllBatches) >= 3
    /\ result = None
\* C12: every attempt that a retry loop (of _get_json, of extractors.py) has
\* repeated had failed with a timeout or with a status in {429, 500, 502, 503,
\* 504}; any other failure is surfaced by the attempt that met it.
C12_RetriesOnlyTransient == retried \subseteq {"transient"}

\* this step ends the running provider call (or batch request) with a failure
CallFails ==
    /\ calls # <<>> /\ Cur.status = "running"
    /\ calls'[Len(calls)].status = "failed"

\* the failure that this step records
NewFailure == Get(calls'[Len(calls)].failure)

\* the response was a timeout or a 429/5xx status
TransientFailure(f) ==
    f.kind = "timeout" \/ (f.kind = "status" /\ f.code \in TransientStatus)

\* C13 (as stated): a call of a retry loop all of whose attempts failed with
\* a transient error ends with a retry-exhausted error.
C13_ExhaustionRaisesRetryError ==
    (/\ module \in {"exchangerates", "extractors"}
     /\ pc = "raised" /\ calls # <<>>
     /\ retried \subseteq {"transient"}
     /\ TransientFailure(Get(Cur.failure))) =>
        Get(error).type = "RetryError"

\* C13 (amended): when every attempt of a request failed with a transient
\* error, the request fails
\*   - in _get_json after exactly 5 attempts, with a RetryError that carries
\*     the last error;
\*   - in the retry loop of extractors.py after exactly retries + 1 attempts,
\*     with the last HTTP error itself (HTTPStatusError or a timeout);
\*   - in extractor.py, which has no retry loop, after the first attempt, with
\*     that HTTP error.
C13_TransientUsesWholeBudget ==
    [][(CallFails /\ retried \subseteq {"transient"} /\ TransientFailure(NewFailure)) =>
          /\ NewFailure.carried = NewFailure.code
          /\ IsEx => /\ attempt + 1 = StopAfterAttempt
                      /\ NewFailure.type = "RetryError"
          /\ IsBatch => NewFailure.type \in {"HTTPStatusError", "ReadTimeout"}
          /\ module = "extractors" => attempt + 1 = args.retries + 1
          /\ module = "extractor" => attempt + 1 = 1]_vars

C13_Witness ==
    /\ module = "extractors" /\ pc = "raised"
    /\ args.retries = DefaultRetries /\ attempt = DefaultRetries + 1
    /\ retried = {"transient"}
    /\ Get(error).type = "HTTPStatusError" /\ Get(error).code = 503
----------------------------------------------------------------------------
(* Properties of the normalisers *)

OkCalls == {i \in 1..Len(calls) : calls[i].status = "ok"}

\* the (date, code, value) entries of the "rates" mapping of a body
RateEntries(b) == IF IsNone(b.rates) THEN <<>> ELSE Items(Get(b.rates))

NonNull(es) == SelectSeq(es, LAMBDA it : it.val.t # "null")

RateOf(row) == IF IsEx THEN row.rate_to_base ELSE row.rate_to_usd

\* the number of elements of a sequence that satisfy a test
Count(seq, Test(_)) == Cardinality({k \in 1..Len(seq) : Test(seq[k])})

FailedWith(i, t) == calls[i].status = "failed" /\ Get(calls[i].failure).type = t

Unparsable(e) == e.val.t = "str"

C15_WitnessAllNaN ==
    /\ IsEx /\ pc = "returned" /\ calls # <<>>
    /\ Get(result).rows # <<>>
    /\ \A k \in 1..Len(Get(result).rows) : Get(result).rows[k].rate_to_base = NaN
\* the mapping of the shape that the body matches ("quotes" before "rates"),
\* None when it matches neither
MatchedMapping(b) ==
    IF ~b.isdict THEN None
    ELSE IF ~IsNone(b.quotes) THEN b.quotes
    ELSE b.rates

\* C16: a request whose body matches neither shape, or whose matched mapping
\* ("rates" or "quotes") is empty, never succeeds: no batch with an empty
\* "quotes" mapping is a successful batch of zero rows; and the sample carried
\* by an unrecognized-shape error is at most 300 characters long.
C16_EmptyMappingRaises ==
    /\ \A i \in OkCalls :
          LET mp == MatchedMapping(Get(calls[i].body))
          IN  ~IsNone(mp) /\ Get(mp) # <<>>
    /\ (pc = "raised" /\ Get(error).type = "RuntimeError") => Get(error).len <= SampleLen
\* the source code of a "quotes" body: data.get("source") or "USD", upper-cased
SourceOf(b) == Upper(IF IsNone(b.source) \/ Get(b.source) = <<>> THEN USD ELSE Get(b.source))

\* the pairs of a "quotes" body that start with its source and have a rate
SourcePairs(b) ==
    SelectSeq(Items(Get(b.quotes)),
              LAMBDA it : StartsWith(Upper(it.code), SourceOf(b)) /\ it.val.t # "null")

\* C17: from a "quotes" body the batch normaliser emits, in order, one row per
\* pair key that starts with the source and has a non-null rate, whose
\* currency_code is the key without that prefix, upper-cased, and no other
\* row; no row has an empty currency_code.
C17_QuotesRowsHaveCode ==
    \A i \in OkCalls :
        LET b == Get(calls[i].body)
            rows == calls[i].rows
        IN  (IsBatch /\ ~IsNone(b.quotes)) =>
               /\ Len(rows) = Len(SourcePairs(b))
               /\ \A k \in 1..Len(rows) :
                     /\ rows[k].currency_code =
                           Upper(SubSeq(SourcePairs(b)[k].code, Len(SourceOf(b)) + 1,
                                        Len(SourcePairs(b)[k].code)))
                     /\ rows[k].currency_code # <<>>
----------------------------------------------------------------------------
(* Properties of the symbols and of the currency codes *)

\* the symbols sent upstream: the list every provider call of exchangerates.py
\* carries, the batches of extractor(s).py one after the other
RECURSIVE Concat(_)
Concat(ss) == IF ss = <<>> THEN <<>> ELSE Head(ss) \o Concat(Tail(ss))

Sent ==
    IF calls = <<>> THEN <<>>
    ELSE IF IsEx THEN calls[1].symbols
    ELSE Concat([i \in 1..Len(calls) |-> calls[i].symbols])

NoDuplicates(seq) == \A i, j \in 1..Len(seq) : seq[i] = seq[j] => i = j

InputStrs == {args.symbols[i] : i \in {j \in 1..Len(args.symbols) : args.symbols[j] # NotAStr}}

\* a call that has sent everything it sends: it returned, and not for its dates
SentAll == pc = "returned" /\ (IsBatch => args.start_d <= args.end_d)

\* C18 (as stated): the symbols sent upstream are exactly the distinct values
\* got by trimming and upper-casing each input symbol and keeping those of
\* exactly 3 characters after trimming, each sent once.
C18_SentTrimmedUpperThreeLetters ==
    SentAll =>
        /\ SeqToSet(Sent) = {Upper(Strip(s)) : s \in {t \in InputStrs : Len(Strip(t)) = 3}}
        /\ NoDuplicates(Sent)

\* C18 (amended): extractor.py and extractors.py send, each once and in sorted
\* order, the distinct upper-cased input strings whose length, untrimmed, is 3:
\* " usd " is not sent at all. exchangerates.py sends, in input order, every
\* input string that is not blank, trimmed and upper-cased, of whatever length
\* and as often as it occurs, and the same list to every provider it calls.
C18_SentByVariant ==
    /\ (IsBatch /\ SentAll) =>
          /\ SeqToSet(Sent) = {Upper(s) : s \in {t \in InputStrs : Len(t) = 3}}
          /\ NoDuplicates(Sent)
          /\ \A i \in 1..(Len(Sent) - 1) : StrLess(Sent[i], Sent[i + 1])
    /\ (IsEx /\ calls # <<>>) =>
          LET kept == SelectSeq(args.symbols, LAMBDA s : s # NotAStr /\ Strip(s) # <<>>)
          IN  \A i \in 1..Len(calls) :
                 calls[i].symbols = [k \in 1..Len(kept) |-> Upper(Strip(kept[k]))]

C18_Witness ==
    /\ IsEx /\ pc = "returned"
    /\ Sent = <<BRL, BRL, <<"E", "U", "R", "O">>>>

C18_WitnessUntrimmed ==
    /\ IsBatch /\ pc = "returned"
    /\ <<" ", "u", "s", "d", " ">> \in InputStrs
    /\ Sent = <<EUR>>
\* C19: every row of every table returned has a currency_code that is
\* upper-case and trimmed, whatever the letter case of the provider's keys.
C19_CurrencyCodeUpperTrimmed ==
    pc = "returned" =>
        \A k \in 1..Len(Get(result).rows) :
            LET code == Get(result).rows[k].currency_code
            IN  code = Upper(Strip(code))
----------------------------------------------------------------------------
(* Properties of main.main and run_pipeline *)

InLog(m) == \E i \in DOMAIN log : log[i] = m

\* the file stems of Stages, in order
AllStems ==
    LET named == SelectSeq(Stages, LAMBDA s : s.stem # "")
    IN  [k \in 1..Len(named) |-> named[k].stem]

\* C20: an error raised by a call of run_pipeline (the country fetch, the rate
\* fetch once its chain of providers is exhausted, a transform, the enrichment,
\* a write) is not swallowed: the run stops at that call, main's handler logs
\* the failure and the process exits with status 1, with no success message;
\* the success message is logged only when every call has returned, and only
\* then is the exit status 0.
C20_ErrorsNeverSwallowed ==
    /\ pc = "raised" =>
          /\ IsFetch(step)
          /\ ~InLog(Finalizado)
          /\ exitStatus # None => caught = error
    /\ caught # None =>
          /\ exitStatus = Some(1)
          /\ log[Len(log)] = Falha
          /\ ~InLog(Finalizado)
          /\ step \in DOMAIN Stages
          /\ written = SubSeq(AllStems, 1, Len(written))
          /\ IsFetch(step) => pc = "raised"
    /\ InLog(Finalizado) =>
          /\ exitStatus = Some(0)
          /\ caught = None
          /\ ~InLog(Falha)
          /\ step = Len(Stages) + 1
          /\ written = AllStems
          /\ pc = "returned"
    /\ exitStatus # None => (caught # None \/ InLog(Finalizado))

\* the rate fetch has raised after its fallback chain, and main has caught it
C20_Witness ==
    /\ caught # None
    /\ IsFetch(step)
    /\ Len(calls) >= 2
    /\ caught = error
    /\ exitStatus = Some(1)

\* every call has returned and the success message is logged
C20_WitnessSuccess ==
    /\ InLog(Finalizado)
    /\ exitStatus = Some(0)
----------------------------------------------------------------------------
(* Properties of the retry loop of extractors.py *)

\* this step ends the running batch request with rows
CallSucceeds ==
    /\ calls # <<>> /\ Cur.status = "running"
    /\ calls'[Len(calls)].status = "ok"

\* C21: in the retry loop of the batch fetch (extractors.py), every step of a
\* batch is one GET; the k-th failed attempt that is repeated is followed by a
\* sleep of backoff_s ** k, for k = 1..retries and in that order; a batch whose
\* attempts all failed with 429/500/502/503/504 or a timeout is given up at
\* attempt retries + 1 (4 by default) with no further sleep, and the HTTP error
\* of that attempt is raised; a success ends the loop, and the attempts and
\* sleeps of the next batch are counted from the start again.
C21_RetryLoopSchedule ==
    [][(module = "extractors" /\ pc = "http") =>
          /\ ngets' = ngets + 1
          /\ attempt <= args.retries
          /\ sleeps = [k \in 1..attempt |-> k]
          /\ \/ /\ pc' = "http" /\ calls' = calls
                /\ attempt' = attempt + 1
                /\ attempt' <= args.retries
                /\ sleeps' = [k \in 1..attempt' |-> k]
             \/ /\ CallFails /\ pc' = "raised"
                /\ attempt' = attempt + 1
                /\ sleeps' = sleeps
                /\ TransientFailure(NewFailure) =>
                      /\ attempt' = args.retries + 1
                      /\ Get(error').type \in {"HTTPStatusError", "ReadTimeout"}
                      /\ Get(error').code = NewFailure.code
             \/ /\ CallSucceeds
                /\ attempt' = 0 /\ sleeps' = <<>>
                /\ pc' = "http" => /\ Len(calls') = Len(calls) + 1
                                    /\ calls'[Len(calls')].status = "running"]_vars

\* the second batch is given up after 4 GETs and the sleeps 1.5, 1.5^2, 1.5^3,
\* the first batch having succeeded at its third attempt
C21_Witness ==
    /\ module = "extractors" /\ pc = "raised"
    /\ args.retries = DefaultRetries
    /\ Len(calls) = 2
    /\ attempt = DefaultRetries + 1
    /\ sleeps = <<1, 2, 3>>
    /\ ngets = 3 + DefaultRetries + 1
    /\ TransientFailure(Get(Cur.failure))
----------------------------------------------------------------------------
(* Termination and request budget of exchangerates.fetch_timeseries *)

KeyedCalls == {i \in 1..Len(calls) : Keyed(calls[i])}

\* the provider calls made so far are a prefix of: keyed, keyed with base EUR,
\* free; or of: keyed, free; or the free one alone
ChainOrder ==
    /\ Len(calls) <= 3
    /\ Cardinality(FreeCalls) <= 1
    /\ \A i \in FreeCalls : i = Len(calls)
    /\ Cardinality(KeyedCalls) <= 2
    /\ 2 \in KeyedCalls => calls[2].base = EUR

\* at most 5 GETs for each provider call
WithinBudget ==
    /\ attempt <= 5
    /\ calls # <<>> => ngets <= 5 * (Len(calls) - 1) + attempt
    /\ ngets <= 15

\* C22: every call of exchangerates.fetch_timeseries returns a table or
\* raises, whatever the providers answer, and until then it has made at most
\* 3 provider calls (keyed, keyed with base EUR, free), at most 5 GETs for
\* each of them and at most 15 GETs in all, at most two of the calls being to
\* the keyed provider.
C22_TerminatesWithinBudget ==
    /\ [](IsEx => (ChainOrder /\ WithinBudget))
    /\ <>(IsEx => Terminated)

\* the longest call: keyed, keyed with base EUR and free, 5 GETs each
C22_Witness ==
    /\ IsEx /\ Terminated
    /\ Len(calls) = 3
    /\ Cardinality(KeyedCalls) = 2
    /\ ngets = 15
----------------------------------------------------------------------------
(* Properties of the layers written by run_pipeline *)

\* the positions in Stages of the writes of the layers: countries bronze,
\* countries silver, rates bronze, rates silver, enriched, gold (two files)
LayerWrites == {k \in DOMAIN Stages : Stages[k].fn \in {"write_parquet", "write_csv"}}

OnDisk(k) == File(StageDir(Stages[k]), Stages[k].stem) \in disk

\* the write at position k has returned
Written(k) == \E i \in DOMAIN written : written[i] = Stages[k].stem

\* the calls of run_pipeline that produce the data of a layer
Producers == {"fetch_countries", "transform_countries", "fetch_timeseries",
              "transform_rates", "enrich_countries_with_rates", "build_gold_views"}

\* the layers are written in the order of Stages, each after every call
\* before its write has returned, the producer of its data among them
InFixedOrder ==
    /\ written = SubSeq(AllStems, 1, Len(written))
    /\ \A k \in LayerWrites :
          /\ Written(k) => step > k
          /\ Written(k) =>
                \E j \in 1..(k - 1) : Stages[j].fn \in Producers /\ step > j
          /\ (Written(k) /\ Stages[k].stem = "fx_raw") => pc = "returned"
          /\ OnDisk(k) => Written(k)

\* when a call has raised, no layer after it is written and the exit status is 1
StopsAtFailure ==
    caught # None =>
        /\ exitStatus = Some(1)
        /\ \A k \in LayerWrites : k >= step => (~Written(k) /\ ~OnDisk(k))

\* when a call has raised, every layer whose write had returned is on disk
StaysWritten ==
    caught # None => \A k \in LayerWrites : Written(k) => OnDisk(k)

\* C23 (as stated): the layers are written in the fixed order, each after
\* the call that produces its data has returned; when a call raises, every
\* layer written before it stays written, no layer after it is written, and
\* the process exits with status 1.
C23_LayersStayWritten ==
    step > 0 => (InFixedOrder /\ StopsAtFailure /\ StaysWritten)

\* with --overwrite, no layer is written into the directory of an earlier
\* layer or into a directory that contains it
DirsApart ==
    \A i, j \in LayerWrites :
        (i < j /\ Stages[j].fn = "write_parquet") =>
            ~Under(StageDir(Stages[i]), StageDir(Stages[j]))

\* C23 (amended): as stated, the layers written before the failure staying
\* written when --overwrite is not given or no layer's output directory is,
\* or contains, the output directory of a layer written before it (as with
\* the default directories): with --overwrite, write_parquet removes its
\* whole output directory before it writes, earlier layers in it included.
C23_LayersStayWrittenInSeparateDirs ==
    step > 0 =>
        /\ InFixedOrder
        /\ StopsAtFailure
        /\ (~args.overwrite \/ DirsApart) => StaysWritten

\* the enrichment has raised under --overwrite: the four layers before it are
\* on disk, the enriched and gold layers are not, the exit status is 1
C23_Witness ==
    /\ step > 0 /\ args.overwrite /\ DirsApart
    /\ caught # None /\ exitStatus = Some(1)
    /\ Stages[step].fn = "enrich_countries_with_rates"
    /\ Cardinality({k \in LayerWrites : OnDisk(k)}) = 4
====
